---- MODULE Spec2Model ----
(***************************************************************************)
(* The crawl engine of jwambugu/kitchen: Crawler.Start / Crawler.Crawl /   *)
(* Crawler.shouldVisit / Crawler.Fetch of the context-aware crawler, and   *)
(* the older Crawler.Crawl of webcrawler/crawler/crawler.go, as state      *)
(* machines over one Crawler instance; Crawler.Fetch with                  *)
(* Crawler.DownloadAndSave over the destination directory, and             *)
(* Crawler.FindLinks over URL strings, each as a state machine of its own; *)
(* and the LoadBalancer of cmd/loadbalancer.                               *)
(*                                                                         *)
(* A branch (one goroutine started by wg.Go) is named by the chain of URLs *)
(* that led to it: <<start>> is the goroutine Start spawns, p \o <<l>> the *)
(* goroutine the Crawl call of branch p spawns for its link l.             *)
(***************************************************************************)
EXTENDS Integers, Sequences, FiniteSets, TLC

VARIABLES
    visitedPages,   \* Crawler.visitedPages: the set of keys of the map
    site,           \* the site the HTTP client reaches
    cache,          \* URL -> its cache file in destinationDir: [exists, bytes]
    maxConcurrent,  \* Crawler.maxConcurrent
    phase,          \* "idle" | "running" (inside Start) | "returned"
    startDepth,     \* the depth argument of the running Start
    cancelled,      \* ctx.Err() != nil for the context given to Start
    branches,       \* path -> state of the goroutine / its Crawl call
    wg,             \* the counter of Start's sync.WaitGroup
    result,         \* the list Start returned, as a set
    admitCount,     \* history: per URL, how many admissions returned true
    visitedAtStart, \* history: visitedPages when the running Start began
    server, disk, fetchCalls, fetchCount, lastFetch, downloaded,  \* Fetch, see below
    givenUri, givenDocument, returnedLinks,  \* FindLinks on its own, see below
    alive, current, calls, log, probed, setAliveCalls  \* the load balancer, see below

crawlVars == <<site, visitedPages, cache, maxConcurrent, phase, startDepth,
               cancelled, branches, wg, result, admitCount, visitedAtStart>>
fetchVars == <<server, disk, fetchCalls, fetchCount, lastFetch, downloaded>>
linkVars == <<givenUri, givenDocument, returnedLinks>>
lbVars == <<alive, current, calls, log, probed, setAliveCalls>>
vars == <<crawlVars, fetchVars, linkVars, lbVars>>

(***************************************************************************)
(* Bounds of the model.                                                    *)
(***************************************************************************)
MaxDepth == 3
MaxConc == 2
MaxSpelledDepth == 2

(***************************************************************************)
(* URL strings.  A string is written as the sequence of its lexical        *)
(* pieces: a scheme with its colon ("http:", "https:", "mailto:"), the     *)
(* double slash "//", a host ("h", "g"), a slash "/", a path segment       *)
(* ("a", "b", "c"), a query with its question mark ("?q"), a hash with     *)
(* nothing after it ("#"), a fragment with its hash ("#f"), white space    *)
(* (" ") and a malformed escape ("%").                                     *)
(* <<"http:", "//", "h", "/", "a", "?q">> is http://h/a?q.                 *)
(***************************************************************************)
SchemeTok == {"http:", "https:", "mailto:"}
HashTok == {"#", "#f"}
HostTok == {"h", "g"}
Slashes == {"/", "//"}

Last(s) == s[Len(s)]
Front(s) == SubSeq(s, 1, Len(s) - 1)
Range(s) == {s[i] : i \in 1..Len(s)}

\* strings.TrimSpace, strings.TrimRight(s, cutset), strings.HasPrefix.
RECURSIVE TrimLeft(_, _)
TrimLeft(s, cutset) ==
    IF s # <<>> /\ Head(s) \in cutset THEN TrimLeft(Tail(s), cutset) ELSE s

RECURSIVE TrimRight(_, _)
TrimRight(s, cutset) ==
    IF s # <<>> /\ Last(s) \in cutset THEN TrimRight(Front(s), cutset) ELSE s

TrimSpace(s) == TrimRight(TrimLeft(s, {" "}), {" "})
\* The pieces whose text begins with the text of t.
BeginWith(t) == IF t = "#" THEN HashTok ELSE {t}
HasPrefix(s, t) == s # <<>> /\ Head(s) \in BeginWith(t)

\* url.Parse fails on a malformed escape.
ParseFails(s) == "%" \in Range(s)

\* url.Parse, from the inside out.  parseAuthority: a rest that begins with
\* "//" has an authority, what is left is the path; with a scheme, a rest
\* that does not begin with a slash is opaque.
parseAuthority(rest, viaScheme) ==
    LET isOpaque == viaScheme /\ rest # <<>> /\ Head(rest) \notin Slashes
        hasAuth == rest # <<>> /\ Head(rest) = "//"
        hasHost == hasAuth /\ Len(rest) > 1 /\ rest[2] \in HostTok
    IN  [Scheme   |-> "",
         Opaque   |-> IF isOpaque THEN rest ELSE <<>>,
         Host     |-> IF hasHost THEN rest[2] ELSE "",
         Path     |-> IF isOpaque THEN <<>>
                      ELSE IF hasHost THEN SubSeq(rest, 3, Len(rest))
                      ELSE IF hasAuth THEN Tail(rest) ELSE rest,
         RawQuery |-> "",
         Fragment |-> ""]

\* The rest is cut at the question mark.
parseQuery(rest, viaScheme) ==
    IF rest # <<>> /\ Last(rest) = "?q"
    THEN [parseAuthority(Front(rest), viaScheme) EXCEPT !.RawQuery = "?q"]
    ELSE parseAuthority(rest, viaScheme)

\* getScheme: the scheme is taken off.
getScheme(rawURL) ==
    IF rawURL # <<>> /\ Head(rawURL) \in SchemeTok
    THEN [parseQuery(Tail(rawURL), TRUE) EXCEPT !.Scheme = Head(rawURL)]
    ELSE parseQuery(rawURL, FALSE)

\* url.Parse: the string is cut at the hash, and nothing after the hash
\* leaves the fragment empty.
Parse(s) ==
    IF s # <<>> /\ Last(s) \in HashTok
    THEN [getScheme(Front(s)) EXCEPT
             !.Fragment = IF Last(s) = "#f" THEN "#f" ELSE ""]
    ELSE getScheme(s)

\* (*URL).String.
String(u) ==
    (IF u.Scheme # "" THEN <<u.Scheme>> ELSE <<>>) \o
    (IF u.Opaque # <<>> THEN u.Opaque
     ELSE (IF (u.Scheme # "" \/ u.Host # "") /\ (u.Host # "" \/ u.Path # <<>>)
           THEN <<"//">> ELSE <<>>) \o
          (IF u.Host # "" THEN <<u.Host>> ELSE <<>>) \o
          (IF u.Path # <<>> /\ Head(u.Path) # "/" /\ u.Host # ""
           THEN <<"/">> ELSE <<>>) \o
          u.Path) \o
    (IF u.RawQuery # "" THEN <<u.RawQuery>> ELSE <<>>) \o
    (IF u.Fragment # "" THEN <<u.Fragment>> ELSE <<>>)

\* (*URL).IsAbs.
IsAbs(u) == u.Scheme # ""

\* The directory of a path: everything up to and including its last slash.
RECURSIVE UpToLastSlash(_)
UpToLastSlash(path) ==
    IF path = <<>> \/ Last(path) = "/" THEN path ELSE UpToLastSlash(Front(path))

\* net/url resolvePath, for paths without dot segments.
resolvePath(basePath, refPath) ==
    LET full == IF refPath = <<>> THEN basePath
                ELSE IF Head(refPath) # "/" THEN UpToLastSlash(basePath) \o refPath
                ELSE refPath
    IN  IF full = <<>> \/ Head(full) = "/" THEN full ELSE <<"/">> \o full

\* (*URL).ResolveReference: a reference with a scheme or a host keeps its
\* own authority and path; any other one is resolved against the base, and
\* an empty one takes the base's query and fragment as well, and the opaque
\* part of an opaque base.
ResolveReference(u, ref) ==
    LET scheme == IF ref.Scheme = "" THEN u.Scheme ELSE ref.Scheme
        empty == ref.Path = <<>> /\ ref.RawQuery = ""
    IN  IF ref.Scheme # "" \/ ref.Host # ""
        THEN [ref EXCEPT !.Scheme = scheme, !.Path = resolvePath(ref.Path, <<>>)]
        ELSE IF ref.Path = <<>> /\ u.Opaque # <<>>
        THEN [Scheme   |-> scheme,
              Opaque   |-> u.Opaque,
              Host     |-> "",
              Path     |-> <<>>,
              RawQuery |-> IF empty THEN u.RawQuery ELSE ref.RawQuery,
              Fragment |-> IF empty /\ ref.Fragment = "" THEN u.Fragment
                           ELSE ref.Fragment]
        ELSE [Scheme   |-> scheme,
              Opaque   |-> <<>>,
              Host     |-> u.Host,
              Path     |-> resolvePath(u.Path, ref.Path),
              RawQuery |-> IF empty THEN u.RawQuery ELSE ref.RawQuery,
              Fragment |-> IF empty /\ ref.Fragment = "" THEN u.Fragment
                           ELSE ref.Fragment]

(***************************************************************************)
(* FindLinks.  A document counts by the href values of its <a> tags, in    *)
(* the order of the document.                                              *)
(***************************************************************************)
\* Lines 133-141: the hrefs that are looked at any further.
HrefSkipped(href) ==
    LET rawUrl == TrimSpace(href) IN
    \/ rawUrl = <<>>
    \/ HasPrefix(rawUrl, "mailto:")
    \/ HasPrefix(rawUrl, "#")
    \/ ParseFails(rawUrl)

\* Lines 143-146: parsed, with the query removed.
ParsedHref(href) == [Parse(TrimSpace(href)) EXCEPT !.RawQuery = ""]

\* Lines 151-154: an absolute URL of another host is dropped.
SameHost(uri, parsedUrl) == parsedUrl.Host = uri.Host

HrefKept(uri, href) ==
    /\ ~HrefSkipped(href)
    /\ IsAbs(ParsedHref(href)) => SameHost(uri, ParsedHref(href))

\* Lines 149-161: the absolute URL of a kept href, without trailing slashes.
FullUrl(uri, href) ==
    LET parsedUrl == ParsedHref(href)
        fullUrl == IF IsAbs(parsedUrl) THEN String(parsedUrl)
                   ELSE String(ResolveReference(uri, parsedUrl))
    IN  TrimRight(fullUrl, Slashes)

\* Lines 113-120 and 163-165: the keys of foundLinks after
\* delete(foundLinks, uri.String()).
DeleteOwnUrl(foundLinks, uri) == foundLinks \ {String(uri)}

FindLinks(uri, document) ==
    DeleteOwnUrl({FullUrl(uri, href) :
                     href \in {h \in Range(document) : HrefKept(uri, h)}}, uri)

\* The normalized form of a URL string, as FindLinks leaves a link: the
\* query removed, trailing slashes removed.
Normalized(s) == TrimRight(String([Parse(s) EXCEPT !.RawQuery = ""]), Slashes)

(***************************************************************************)
(* The URL strings the crawl meets, by their text, and the sites being     *)
(* crawled, each a set of pages of the host h.  The server answers for a   *)
(* path whatever the query and a trailing slash.                           *)
(*   "test"  the page of crawler_test.go: the root has the seven anchors   *)
(*           of the test, its three children have none.                    *)
(*   "loop"  a self-link (/), a cycle (/ -> /a -> /), and a page reachable *)
(*           by a short and by a long chain (/ -> /b, / -> /a -> /b).      *)
(***************************************************************************)
Chars ==
    "http://h"     :> <<"http:", "//", "h">> @@
    "http://h/"    :> <<"http:", "//", "h", "/">> @@
    "http://h/a"   :> <<"http:", "//", "h", "/", "a">> @@
    "http://h/a?q" :> <<"http:", "//", "h", "/", "a", "?q">> @@
    "http://h/b"   :> <<"http:", "//", "h", "/", "b">> @@
    "http://h/c"   :> <<"http:", "//", "h", "/", "c">>

URLs == DOMAIN Chars
Text(s) == CHOOSE u \in URLs : Chars[u] = s

\* The start URLs of the long-lived Crawler: the spellings FindLinks itself
\* would produce.
StartURLs == {u \in URLs : Normalized(Chars[u]) = Chars[u]}

\* The page of TestCrawler_FindLinks, for http://localhost.com (h).
TestPage ==
    <<  <<"/">>, <<"/", "a">>, <<"/", "b">>, <<"/", "c", "?q">>,
        <<"https:", "//", "g">>, <<"mailto:", "x">>, <<"#">>  >>

Sites == {"test", "loop"}

Hrefs(s, u) ==
    LET page == TrimRight(Parse(Chars[u]).Path, Slashes) IN
    IF s = "test"
    THEN CASE page = <<>> -> TestPage
           [] OTHER -> <<>>
    ELSE CASE page = <<>> -> <<  <<"/">>, <<"/", "a", "/">>, <<"/", "b">>  >>
           [] page = <<"/", "a">> -> <<  <<"/">>, <<"b">>  >>
           [] page = <<"/", "b">> -> <<  <<"/", "c">>  >>
           [] OTHER -> <<>>

\* The body the site serves for each URL.
Bodies == [s \in Sites |-> [u \in URLs |-> Hrefs(s, u)]]

\* What Fetch returns for the page at u: FindLinks(uri, the body), uri being
\* url.Parse(rawURL).
PageLinks ==
    [s \in Sites |->
        [u \in URLs |-> {Text(l) : l \in FindLinks(Parse(Chars[u]), Bodies[s][u])}]]

(***************************************************************************)
(* Fetch and DownloadAndSave over a destination directory, called by       *)
(* concurrent goroutines.  A body is the sequence of the chunks io.Copy    *)
(* moves, one anchor to a chunk; a file is the sequence of its chunks.     *)
(*   server      what the site answers with a 200 for each URL             *)
(*   disk        file name -> [exists, bytes]                              *)
(*   fetchCalls  per goroutine, its call of Fetch or of DownloadAndSave:   *)
(*               pc "idle" | "do" (inside httpClient.Do) | "copy" (inside  *)
(*               io.Copy), the arguments, the status of the response, the  *)
(*               buffer and the number of chunks moved                     *)
(*   fetchCount  the calls made so far                                     *)
(*   lastFetch   the call that returned last: its arguments, whether the   *)
(*               file existed when Fetch read it, whether it sent a        *)
(*               request, the status it got (0: none), the buffer it read  *)
(*               or DownloadAndSave returned, the error and the links      *)
(*   downloaded  history: per URL, the links of the Fetch that downloaded  *)
(*               it with success, while the file is the one it wrote       *)
(***************************************************************************)
StatusOK == 200
StatusNotFound == 404
StatusInternalServerError == 500
Statuses == {StatusOK, StatusNotFound, StatusInternalServerError}

DestinationDir == "storage"

NoErr == [msg |-> "", status |-> 0]
ErrPageNotFound == [msg |-> "page not found", status |-> 0]
Errorf(msg, status) == [msg |-> msg, status |-> status]

NilBuffer == [nil |-> TRUE, bytes |-> <<>>]
NewBuffer(bytes) == [nil |-> FALSE, bytes |-> bytes]
NoFile == [exists |-> FALSE, bytes |-> <<>>]

\* os.Create: the file exists and is empty, whatever it held.
Created == [exists |-> TRUE, bytes |-> <<>>]

\* A chunk of zero bytes: what a file holds where nothing was written below
\* a later write.  It has no anchor.
Hole == <<"NUL">>
Anchors(bytes) == SelectSeq(bytes, LAMBDA chunk : chunk # Hole)

\* (*os.File).Write of one chunk by a descriptor that has written off chunks:
\* the chunk goes to place off + 1, over what is there or behind a hole.
WriteAt(bytes, off, chunk) ==
    [i \in 1..(IF Len(bytes) > off + 1 THEN Len(bytes) ELSE off + 1) |->
        IF i = off + 1 THEN chunk
        ELSE IF i <= Len(bytes) THEN bytes[i] ELSE Hole]

\* alphanumericRegex.ReplaceAllString(rawURL, "_"): every run of characters
\* that are not letters or digits becomes one underscore.
Pieces(tok) ==
    CASE tok = "http:" -> <<"http", "_">>
      [] tok = "https:" -> <<"https", "_">>
      [] tok = "mailto:" -> <<"mailto", "_">>
      [] tok = "?q" -> <<"_", "q">>
      [] tok = "#f" -> <<"_", "f">>
      [] tok \in {"//", "/", "#", " ", "%"} -> <<"_">>
      [] OTHER -> <<tok>>

RECURSIVE ReplaceAllString(_)
ReplaceAllString(s) ==
    IF s = <<>> THEN <<>>
    ELSE LET rest == ReplaceAllString(Tail(s))
             head == Pieces(Head(s))
         IN  IF rest # <<>> /\ Head(rest) = "_" /\ Last(head) = "_"
             THEN head \o Tail(rest)
             ELSE head \o rest

\* Fetch, lines 186-187: the cache file of rawURL.
Filename(rawURL) == <<DestinationDir, "/">> \o ReplaceAllString(rawURL)

\* The URLs Fetch is called with, and the bodies served: up to MaxBody
\* anchors, to /a/ on the page at / and to / on the page at /a.
FetchURLs == {<<"http:", "//", "h", "/">>, <<"http:", "//", "h", "/", "a">>}
BodyHrefs ==
    <<"http:", "//", "h", "/">> :> {<<"/", "a", "/">>} @@
    <<"http:", "//", "h", "/", "a">> :> {<<"/">>}
MaxBody == 2

Documents(hrefs, n) == UNION {[1..k -> hrefs] : k \in 0..n}

\* The goroutines that call Fetch or DownloadAndSave at the same time, and
\* the number of calls they make.  Goroutine 2 is the one that calls while
\* another call is running.
Fetchers == {1, 2}
MaxFetchCalls == 2
MayCall(c) ==
    /\ fetchCalls[c].pc = "idle"
    /\ fetchCount < MaxFetchCalls
    /\ c = 2 => fetchCalls[1].pc # "idle"

\* The files of the destination directory: the cache files of the URLs, and
\* the file the tests download to.
Filenames == {Filename(u) : u \in FetchURLs}
TestFilename == <<DestinationDir, "/", "h">>
UrlOfFile(f) == CHOOSE u \in FetchURLs : Filename(u) = f

\* What httpClient.Do returns: an error (a transport error, a cancelled
\* context), or a response with a status.
Responses ==
    {[do |-> FALSE, status |-> 0]} \cup {[do |-> TRUE, status |-> s] : s \in Statuses}

\* io.MultiWriter(file, &buffer): each chunk goes to the file, at the place
\* this descriptor has reached, and to the buffer.
MultiWrite(w, chunk) ==
    [file |-> WriteAt(w.file, w.n, chunk), buffer |-> Append(w.buffer, chunk),
     n |-> w.n + 1]

\* DownloadAndSave, line 71: the switch on the status.
AnyStatusOK(status) == TRUE
IsStatusOK(status) == status = StatusOK

\* Fetch, lines 189-195: os.ReadFile found the file.
CacheNeverHit(file) == FALSE
CacheHit(file) == file.exists

NoFetchCall ==
    [pc |-> "idle", op |-> "none", url |-> <<>>, filename |-> <<>>,
     status |-> 0, buffer |-> <<>>, n |-> 0]

NoFetch ==
    [op |-> "none", url |-> <<>>, filename |-> <<>>, existed |-> FALSE,
     requested |-> FALSE, status |-> 0, buffer |-> NilBuffer, err |-> NoErr,
     links |-> {}]

\* Fetch(ctx, rawURL) with the cache file read: the links of its content.
FetchFromCache(rawURL, file) ==
    [op |-> "Fetch", url |-> rawURL, filename |-> Filename(rawURL),
     existed |-> file.exists, requested |-> FALSE, status |-> 0,
     buffer |-> NewBuffer(file.bytes), err |-> NoErr,
     links |-> FindLinks(Parse(rawURL), Anchors(file.bytes))]

\* Fetch(ctx, rawURL) when os.ReadFile failed for another reason than a
\* missing file: the error, and no request.
FetchUnread(rawURL, file) ==
    [op |-> "Fetch", url |-> rawURL, filename |-> Filename(rawURL),
     existed |-> file.exists, requested |-> FALSE, status |-> 0,
     buffer |-> NilBuffer, err |-> Errorf("read file", 0), links |-> {}]

\* What a call that went to DownloadAndSave returns: the error, or the
\* buffer and, from Fetch, the links FindLinks finds in it.
DownloadReturns(call, status, err) ==
    [op |-> call.op, url |-> call.url, filename |-> call.filename,
     existed |-> FALSE, requested |-> TRUE, status |-> status,
     buffer |-> IF err = NoErr THEN NewBuffer(call.buffer) ELSE NilBuffer,
     err |-> err,
     links |-> IF err = NoErr /\ call.op = "Fetch"
               THEN FindLinks(Parse(call.url), Anchors(call.buffer))
               ELSE {}]

\* Fetch, lines 181-202: the file name, os.ReadFile, and the switch on its
\* error.  A file that was read is returned from at once; a missing one sends
\* the call into DownloadAndSave with uri.String().
CallFetch(c) ==
    /\ MayCall(c)
    /\ fetchCount' = fetchCount + 1
    /\ \E rawURL \in FetchURLs, readFails \in BOOLEAN :
          LET filename == Filename(rawURL)
              file == disk[filename]
          IN  IF readFails
              THEN /\ lastFetch' = FetchUnread(rawURL, file)
                   /\ UNCHANGED fetchCalls
              ELSE IF CacheHit(file)
              THEN /\ lastFetch' = FetchFromCache(rawURL, file)
                   /\ UNCHANGED fetchCalls
              ELSE /\ fetchCalls' = [fetchCalls EXCEPT ![c] =
                          [NoFetchCall EXCEPT !.pc = "do", !.op = "Fetch",
                                              !.url = String(Parse(rawURL)),
                                              !.filename = filename]]
                   /\ UNCHANGED lastFetch
    /\ UNCHANGED <<server, disk, downloaded>>

\* DownloadAndSave(ctx, uri, filename) called directly, as the tests do
\* (crawler_test.go, lines 53-55 and 105-107), with a file name of the
\* caller's choice: the one Fetch gives the page, or the one of the tests.
CallDownloadAndSave(c) ==
    /\ MayCall(c)
    /\ fetchCount' = fetchCount + 1
    /\ \E uri \in FetchURLs : \E filename \in {Filename(uri), TestFilename} :
          fetchCalls' = [fetchCalls EXCEPT ![c] =
              [NoFetchCall EXCEPT !.pc = "do", !.op = "DownloadAndSave",
                                  !.url = uri, !.filename = filename]]
    /\ UNCHANGED <<server, disk, lastFetch, downloaded>>

\* The download of a file begins again: what was known of it is void.
Overwritten(filename) ==
    [u \in FetchURLs |->
        IF Filename(u) = filename THEN [done |-> FALSE, links |-> {}]
        ELSE downloaded[u]]

\* DownloadAndSave, lines 62-76: httpClient.Do returns, then the switch on
\* the status; for a 200, os.Create.
DoReturns(c) ==
    LET call == fetchCalls[c] IN
    /\ call.pc = "do"
    /\ \E r \in Responses, createFails \in BOOLEAN :
          IF r.do /\ IsStatusOK(r.status) /\ ~createFails
          THEN /\ disk' = [disk EXCEPT ![call.filename] = Created]
               /\ fetchCalls' = [fetchCalls EXCEPT ![c].pc = "copy",
                                                   ![c].status = r.status]
               /\ downloaded' = Overwritten(call.filename)
               /\ UNCHANGED lastFetch
          ELSE /\ lastFetch' =
                     DownloadReturns(call, r.status,
                         IF ~r.do THEN Errorf("do request", 0)
                         ELSE IF IsStatusOK(r.status) THEN Errorf("create file", 0)
                         ELSE IF r.status = StatusNotFound THEN ErrPageNotFound
                         ELSE Errorf("request failed with status", r.status))
               /\ fetchCalls' = [fetchCalls EXCEPT ![c] = NoFetchCall]
               /\ UNCHANGED <<disk, downloaded>>
    /\ UNCHANGED <<server, fetchCount>>

\* DownloadAndSave, line 85: io.Copy moves one more chunk of the body.
CopyChunk(c) ==
    LET call == fetchCalls[c]
        body == server[call.url]
    IN  /\ call.pc = "copy"
        /\ call.n < Len(body)
        /\ LET w == MultiWrite([file |-> disk[call.filename].bytes,
                                buffer |-> call.buffer, n |-> call.n],
                               body[call.n + 1])
           IN  /\ disk' = [disk EXCEPT ![call.filename].bytes = w.file]
               /\ fetchCalls' = [fetchCalls EXCEPT ![c].buffer = w.buffer,
                                                   ![c].n = w.n]
        /\ UNCHANGED <<server, fetchCount, lastFetch, downloaded>>

\* DownloadAndSave, lines 85-94: io.Copy returns an error (the body breaks
\* off, the context is cancelled, the disk is full), or it has moved the
\* whole body, and file.Seek fails or the buffer is returned.
CopyReturns(c) ==
    LET call == fetchCalls[c]
        body == server[call.url]
        errs == {Errorf("copy response to file", 0)} \cup
                (IF call.n = Len(body) THEN {Errorf("seek file", 0), NoErr} ELSE {})
    IN  /\ call.pc = "copy"
        /\ \E err \in errs :
              LET f == DownloadReturns(call, call.status, err) IN
              /\ lastFetch' = f
              /\ downloaded' =
                    IF err = NoErr /\ call.op = "Fetch"
                    THEN [downloaded EXCEPT
                             ![call.url] = [done |-> TRUE, links |-> f.links]]
                    ELSE downloaded
        /\ fetchCalls' = [fetchCalls EXCEPT ![c] = NoFetchCall]
        /\ UNCHANGED <<server, disk, fetchCount>>

FetchIdle ==
    /\ server = [u \in FetchURLs |-> <<>>]
    /\ disk = [f \in Filenames \cup {TestFilename} |-> NoFile]
    /\ fetchCalls = [c \in Fetchers |-> NoFetchCall]
    /\ fetchCount = 0
    /\ lastFetch = NoFetch
    /\ downloaded = [u \in FetchURLs |-> [done |-> FALSE, links |-> {}]]

\* The destination directory at the beginning: empty, or with the files an
\* earlier process downloaded in full.
FetchInit ==
    /\ server \in [FetchURLs -> Documents(UNION {BodyHrefs[u] : u \in FetchURLs}, MaxBody)]
    /\ \A u \in FetchURLs : Range(server[u]) \subseteq BodyHrefs[u]
    /\ \E kept \in SUBSET Filenames :
          disk = [f \in Filenames \cup {TestFilename} |->
                     IF f \in kept
                     THEN [exists |-> TRUE, bytes |-> server[UrlOfFile(f)]]
                     ELSE NoFile]
    /\ fetchCalls = [c \in Fetchers |-> NoFetchCall]
    /\ fetchCount = 0
    /\ lastFetch = NoFetch
    /\ downloaded = [u \in FetchURLs |-> [done |-> FALSE, links |-> {}]]

(***************************************************************************)
(* FindLinks on its own: a base URL and a document are given, FindLinks    *)
(* is called once.                                                         *)
(***************************************************************************)
MaxAnchors == 2

BaseURLs ==
    {<<"http:", "//", "h">>,
     <<"http:", "//", "h", "/">>,
     <<"http:", "//", "h", "/", "a">>,
     <<"http:", "//", "h", "/", "a", "/">>,
     <<"http:", "//", "h", "/", "a", "?q">>}

AnchorHrefs ==
    {<<>>, <<" ">>, <<"mailto:", "x">>, <<"#">>, <<"/", "%">>,
     <<"/">>, <<"/", "a">>, <<" ", "/", "a", "/", " ">>, <<"/", "b", "?q">>,
     <<"/", "a", "#">>, <<"/", "a", "#f">>, <<"#f">>, <<"b">>, <<"?q">>,
     <<"https:", "//", "g">>, <<"http:", "//", "h", "/", "a">>,
     <<"//", "g", "/", "a">>, <<"//", "h", "/", "b">>}

LinkIdle ==
    /\ givenUri = <<>>
    /\ givenDocument = <<>>
    /\ returnedLinks = [returned |-> FALSE, links |-> {}]

LinkInit ==
    /\ givenUri \in BaseURLs
    /\ givenDocument \in Documents(AnchorHrefs, MaxAnchors) \cup {TestPage}
    /\ returnedLinks = [returned |-> FALSE, links |-> {}]

CallFindLinks ==
    /\ ~returnedLinks.returned
    /\ returnedLinks' =
          [returned |-> TRUE, links |-> FindLinks(Parse(givenUri), givenDocument)]
    /\ UNCHANGED <<givenUri, givenDocument>>

(***************************************************************************)
(* The load balancer of cmd/loadbalancer: a LoadBalancer over the Backends *)
(* it was built with, the HTTP handlers calling NextBackend concurrently,  *)
(* HealthCheck, and SetAlive called on a Backend.                          *)
(*   alive    the Alive flags of lb.backends, in order (backend idx of the *)
(*            code is alive[idx + 1]); they are those the Backends were    *)
(*            built with until SetAlive writes one                         *)
(*   current  lb.current; it is a uint64 and would wrap after 2^64         *)
(*            additions, far beyond MaxCalls                               *)
(*   calls    per handler, its call of NextBackend: pc "idle" | "scan" |   *)
(*            "returned", the locals next and i, what it returned          *)
(*            ("backend" with idx, or "nil"), its place in log, whether    *)
(*            it began after the latest HealthCheck pass, and (history)    *)
(*            the number of SetAlive calls made before it began            *)
(*   log      history: the calls in the order of their atomic.AddUint64,   *)
(*            each with what it returned ("none" while it runs)            *)
(*   probed   the HealthCheck pass: whether one is running, the statuses   *)
(*            isBackendAlive gave in it so far, in the order of            *)
(*            lb.backends, and (history) whether the latest pass is done   *)
(*   setAliveCalls  the number of SetAlive calls made so far               *)
(***************************************************************************)
NumBackends == 3
MaxCalls == 4
MaxSetAlive == 3
Callers == {1, 2}

NoCall ==
    [pc |-> "idle", next |-> 0, i |-> 0, outcome |-> "none", idx |-> 0,
     slot |-> 0, afterPass |-> FALSE, writes |-> 0]

LbIdle ==
    /\ alive = <<>>
    /\ current = 0
    /\ calls = [c \in Callers |-> NoCall]
    /\ log = <<>>
    /\ probed = [running |-> FALSE, done |-> FALSE, status |-> <<>>]
    /\ setAliveCalls = 0

\* main appends one Backend with Alive: true for each of the three
\* serversUrls before the server starts.
LbInit ==
    /\ alive = [b \in 1..NumBackends |-> TRUE]
    /\ current = 0
    /\ calls = [c \in Callers |-> NoCall]
    /\ log = <<>>
    /\ probed = [running |-> FALSE, done |-> FALSE, status |-> <<>>]
    /\ setAliveCalls = 0

\* Backend.IsAlive of lb.backends[idx].
IsAlive(idx) == alive[idx + 1]

\* Backend.SetAlive of lb.backends[idx], lines 25-29: the flag is written
\* under b.mu.  Nothing in the repository calls it; a caller holding the
\* Backend may, at any time.
SetAlive(idx, value) ==
    /\ setAliveCalls < MaxSetAlive
    /\ idx \in 0..(Len(alive) - 1)
    /\ alive' = [alive EXCEPT ![idx + 1] = value]
    /\ setAliveCalls' = setAliveCalls + 1
    /\ UNCHANGED <<current, calls, log, probed>>

\* NextBackend, line 48: what is added to lb.current,
\* uint64(1)%uint64(len(lb.backends)); the remainder is taken of 1, not of
\* the sum.
NoDelta(n) == 0
Delta(n) == 1 % n

\* NextBackend, line 48: next := atomic.AddUint64(&lb.current, ...).
NextBackendAdd(c) ==
    /\ calls[c].pc \in {"idle", "returned"}
    /\ Len(log) < MaxCalls
    /\ current' = current + Delta(Len(alive))
    /\ calls' = [calls EXCEPT ![c] =
                   [NoCall EXCEPT !.pc = "scan", !.next = current',
                                  !.slot = Len(log) + 1,
                                  !.afterPass = probed.done,
                                  !.writes = setAliveCalls]]
    /\ log' = Append(log, [outcome |-> "none", idx |-> 0])
    /\ UNCHANGED <<alive, probed, setAliveCalls>>

\* NextBackend, lines 50-58: one turn of the loop, or the return nil after it.
NextBackendScan(c) ==
    /\ calls[c].pc = "scan"
    /\ LET idx == (calls[c].next + calls[c].i) % Len(alive) IN
       IF calls[c].i < Len(alive)
       THEN IF IsAlive(idx)
            THEN /\ calls' = [calls EXCEPT ![c].pc = "returned",
                                           ![c].outcome = "backend",
                                           ![c].idx = idx]
                 /\ log' = [log EXCEPT ![calls[c].slot] =
                               [outcome |-> "backend", idx |-> idx]]
            ELSE /\ calls' = [calls EXCEPT ![c].i = @ + 1]
                 /\ UNCHANGED log
       ELSE /\ calls' = [calls EXCEPT ![c].pc = "returned", ![c].outcome = "nil"]
            /\ log' = [log EXCEPT ![calls[c].slot] = [outcome |-> "nil", idx |-> 0]]
    /\ UNCHANGED <<alive, current, probed, setAliveCalls>>

\* HealthCheck, lines 78-79: a pass over lb.backends begins, in main or in
\* the goroutine of HealthCheckPeriodically, one pass at a time.
HealthCheck ==
    /\ ~probed.running
    /\ probed' = [running |-> TRUE, done |-> FALSE, status |-> <<>>]
    /\ UNCHANGED <<alive, current, calls, log, setAliveCalls>>

\* isBackendAlive, lines 61-75, called at line 80 on the next backend:
\* net.DialTimeout connects or fails within two seconds.  The status is
\* logged and nothing else is done with it.
isBackendAlive ==
    /\ probed.running
    /\ Len(probed.status) < Len(alive)
    /\ \E status \in BOOLEAN :
          probed' = [probed EXCEPT !.status = Append(@, status)]
    /\ UNCHANGED <<alive, current, calls, log, setAliveCalls>>

\* HealthCheck, lines 79 and 87: the range is exhausted and the pass returns.
HealthCheckReturns ==
    /\ probed.running
    /\ Len(probed.status) = Len(alive)
    /\ probed' = [probed EXCEPT !.running = FALSE, !.done = TRUE]
    /\ calls' = [c \in Callers |-> [calls[c] EXCEPT !.afterPass = FALSE]]
    /\ UNCHANGED <<alive, current, log, setAliveCalls>>

(***************************************************************************)
(* Branches.                                                               *)
(*   pc       "start"    Crawl entered, nothing done yet                   *)
(*            "marking"  (older Crawl only) found unvisited, not yet marked*)
(*            "admitted" shouldVisit returned true, ctx not yet checked    *)
(*            "fetch"    about to call Fetch                               *)
(*            "fetching" inside Fetch, waiting in httpClient.Do            *)
(*            "copying"  inside io.Copy, the cache file created            *)
(*            "loop"     inside the for loop over links                    *)
(*            "ret"      Crawl returned, the goroutine has not yet         *)
(*                       received from its parent's semaphore              *)
(*            "released" the goroutine has received from its parent's      *)
(*                       semaphore, wg.Done has not yet run                *)
(*            "done"     the goroutine has ended                           *)
(*   todo     the links the loop has not yet reached                       *)
(*   sem      len(semaphore) of this Crawl call's channel                  *)
(*   admit    what the admission returned: "none" | "true" | "false"       *)
(*   source   where the running Fetch reads from: "none" | "cache" | "http"*)
(*   contents what os.ReadFile returned, while Fetch runs                  *)
(*   n        the chunks io.Copy has moved, while Fetch runs               *)
(*   outcome  of Fetch: "none" | "ok" | "fail" | "canceled"                *)
(*   links    history: the links Fetch returned                            *)
(*   ctxAtCheck  history: whether the context was cancelled when this      *)
(*            Crawl call evaluated ctx.Err()                               *)
(***************************************************************************)
NewBranch ==
    [pc |-> "start", todo |-> {}, sem |-> 0, admit |-> "none",
     source |-> "none", contents |-> <<>>, n |-> 0, outcome |-> "none",
     links |-> {}, ctxAtCheck |-> FALSE]

Paths == DOMAIN branches
UrlOf(p) == p[Len(p)]
Parent(p) == SubSeq(p, 1, Len(p) - 1)
\* Crawl(ctx, link, depth-1, wg): each level of the chain took one off.
DepthOf(p) == startDepth - (Len(p) - 1)
Children(p) == {q \in Paths : Len(q) = Len(p) + 1 /\ Parent(q) = p}

\* NewCrawler: visitedPages is an empty map, maxConcurrent is runtime.NumCPU():
\* one CPU, or as many as the machine has.
\* The destination directory may hold the files of an earlier process.
\* It is empty, or it holds the file of /b: downloaded in full from this
\* site, or left empty by a download that broke off in io.Copy.
FilesOf(u, bytes) ==
    [v \in URLs |-> IF v = u THEN [exists |-> TRUE, bytes |-> bytes] ELSE NoFile]
InitialCaches(s) ==
    {[v \in URLs |-> NoFile]} \cup
    {FilesOf("http://h/b", bytes) : bytes \in {Bodies[s]["http://h/b"], <<>>}}

Init ==
    /\ site \in Sites
    /\ visitedPages = {}
    /\ cache \in InitialCaches(site)
    /\ maxConcurrent \in {1, MaxConc}
    /\ phase = "idle"
    /\ startDepth = 0
    /\ cancelled = FALSE
    /\ branches = <<>>
    /\ wg = 0
    /\ result = {}
    /\ admitCount = [u \in URLs |-> 0]
    /\ visitedAtStart = {}
    /\ FetchIdle
    /\ LinkIdle
    /\ LbIdle

(***************************************************************************)
(* Start, up to wg.Wait: a fresh WaitGroup, and wg.Go of the first Crawl.  *)
(* The caller chooses the URL, the depth and the context, which may be     *)
(* cancelled already.  visitedPages is the Crawler's and is not touched.   *)
(***************************************************************************)
StartWith(u, d, c) ==
    /\ phase \in {"idle", "returned"}
    /\ phase' = "running"
    /\ startDepth' = d
    /\ cancelled' = c
    /\ branches' = (<<u>> :> NewBranch)
    /\ wg' = 1
    /\ visitedAtStart' = visitedPages
    /\ UNCHANGED <<lbVars, fetchVars, linkVars, site, visitedPages, cache, maxConcurrent, result, admitCount>>

\* The depth is an int: zero and negative depths are inputs too.
Depths == (-1)..MaxDepth

Start == \E u \in StartURLs, d \in Depths, c \in BOOLEAN : StartWith(u, d, c)

\* The signal handler of cmd/crawler calls cancel() while Start runs.
Cancel ==
    /\ phase = "running"
    /\ ~cancelled
    /\ cancelled' = TRUE
    /\ UNCHANGED <<lbVars, fetchVars, linkVars, site, visitedPages, cache, maxConcurrent, phase, startDepth,
                   branches, wg, result, admitCount, visitedAtStart>>

(***************************************************************************)
(* shouldVisit: under c.mu.Lock, the membership test and the insertion.    *)
(***************************************************************************)
ShouldVisitAlways(u) == TRUE
shouldVisit(u) == u \notin visitedPages

\* Crawl, lines 230-236: the depth test, then shouldVisit.
CrawlEnter(p) ==
    /\ branches[p].pc = "start"
    /\ IF DepthOf(p) <= 0
       THEN /\ branches' = [branches EXCEPT ![p].pc = "ret"]
            /\ UNCHANGED <<visitedPages, admitCount>>
       ELSE IF shouldVisit(UrlOf(p))
            THEN /\ visitedPages' = visitedPages \cup {UrlOf(p)}
                 /\ admitCount' = [admitCount EXCEPT ![UrlOf(p)] = @ + 1]
                 /\ branches' = [branches EXCEPT ![p].pc = "admitted",
                                                 ![p].admit = "true"]
            ELSE /\ branches' = [branches EXCEPT ![p].pc = "ret",
                                                 ![p].admit = "false"]
                 /\ UNCHANGED <<visitedPages, admitCount>>
    /\ UNCHANGED <<lbVars, fetchVars, linkVars, site, cache, maxConcurrent, phase, startDepth, cancelled, wg,
                   result, visitedAtStart>>

\* Crawl, lines 238-240: if ctx.Err() != nil { return }.
CtxNeverErr == FALSE
CtxErr == cancelled

CheckCtx(p) ==
    /\ branches[p].pc = "admitted"
    /\ branches' = [branches EXCEPT ![p].pc = IF CtxErr THEN "ret" ELSE "fetch",
                                    ![p].ctxAtCheck = cancelled]
    /\ UNCHANGED <<lbVars, fetchVars, linkVars, site, visitedPages, cache, maxConcurrent, phase, startDepth,
                   cancelled, wg, result, admitCount, visitedAtStart>>

(***************************************************************************)
(* Fetch.  It begins with os.ReadFile of the cache file: a file that is    *)
(* there is read, a missing one sends the call to DownloadAndSave, whose   *)
(* request carries ctx; any other error of os.ReadFile ends the call.      *)
(* DownloadAndSave waits in httpClient.Do, creates the file on a 200 and   *)
(* copies the body to it chunk by chunk.                                   *)
(***************************************************************************)
FetchOutcomes(p) ==
    {"fail"} \cup
    (IF cancelled THEN {"canceled"} ELSE {}) \cup
    (IF branches[p].pc = "copying" /\ branches[p].n = Len(Bodies[site][UrlOf(p)])
     THEN {"ok"} ELSE {})

\* What the file of a body can hold: the chunks that were written, holes
\* where they were not.
RECURSIVE Contents(_)
Contents(body) ==
    IF body = <<>> THEN {<<>>}
    ELSE LET shorter == Contents(Front(body)) IN
         shorter \cup
         {Append(c, chunk) : c \in {d \in shorter : Len(d) = Len(body) - 1},
                             chunk \in {Last(body), Hole}}

\* The links FindLinks finds in the bytes of the page at u.
FileLinks ==
    [s \in Sites |->
        [u \in URLs |->
            [bytes \in Contents(Bodies[s][u]) |->
                {Text(l) : l \in FindLinks(Parse(Chars[u]), Anchors(bytes))}]]]
LinksIn(u, bytes) == FileLinks[site][u][bytes]

\* Crawl, lines 242-253: a failed Fetch returns, a successful one reaches
\* the loop with the links FindLinks found, in the file that was read or in
\* the buffer of the download, and a fresh, empty semaphore.  A loop over no
\* links falls through to the end of Crawl.
AfterFetchNoReturn(b, o, links) ==
    [b EXCEPT !.outcome = o, !.source = "none", !.contents = <<>>, !.n = 0,
              !.links = links, !.todo = links,
              !.pc = IF links = {} THEN "ret" ELSE "loop"]

AfterFetch(b, o, links) ==
    IF o = "ok"
    THEN [b EXCEPT !.outcome = o, !.source = "none", !.contents = <<>>,
                   !.n = 0, !.links = links, !.todo = links,
                   !.pc = IF links = {} THEN "ret" ELSE "loop"]
    ELSE [b EXCEPT !.outcome = o, !.source = "none", !.contents = <<>>,
                   !.n = 0, !.pc = "ret"]

\* Fetch, lines 186-202: os.ReadFile and the switch on its error.  A file
\* that was read gives its links and Fetch returns; an error other than a
\* missing file makes Fetch return it; a missing file sends the call into
\* DownloadAndSave, to wait in httpClient.Do.
BeginFetch(p) ==
    LET u == UrlOf(p)
        read == [branches[p] EXCEPT !.source = "cache", !.contents = cache[u].bytes]
    IN  /\ branches[p].pc = "fetch"
        /\ \E readFails \in BOOLEAN :
              branches' =
                 IF readFails
                 THEN [branches EXCEPT ![p] = AfterFetch(@, "fail", {})]
                 ELSE IF CacheHit(cache[u])
                 THEN [branches EXCEPT ![p] =
                          AfterFetch(read, "ok", LinksIn(u, read.contents))]
                 ELSE [branches EXCEPT ![p].pc = "fetching", ![p].source = "http"]
        /\ UNCHANGED <<lbVars, fetchVars, linkVars, site, visitedPages, cache, maxConcurrent, phase, startDepth,
                       cancelled, wg, result, admitCount, visitedAtStart>>

\* DownloadAndSave, lines 62-76: the response is a 200 and os.Create made
\* the file, or emptied the one that was there.
Download(p) ==
    /\ branches[p].pc = "fetching"
    /\ branches[p].source = "http"
    /\ branches' = [branches EXCEPT ![p].pc = "copying"]
    /\ cache' = [cache EXCEPT ![UrlOf(p)] = Created]
    /\ UNCHANGED <<lbVars, fetchVars, linkVars, site, visitedPages, maxConcurrent, phase, startDepth, cancelled,
                   wg, result, admitCount, visitedAtStart>>

\* DownloadAndSave, line 85: io.Copy moves one more chunk of the body to the
\* file and to the buffer.
CopyBody(p) ==
    LET body == Bodies[site][UrlOf(p)] IN
    /\ branches[p].pc = "copying"
    /\ branches[p].n < Len(body)
    /\ branches' = [branches EXCEPT ![p].n = @ + 1]
    /\ cache' = [cache EXCEPT ![UrlOf(p)].bytes =
                    WriteAt(@, branches[p].n, body[branches[p].n + 1])]
    /\ UNCHANGED <<lbVars, fetchVars, linkVars, site, visitedPages, maxConcurrent, phase, startDepth, cancelled,
                   wg, result, admitCount, visitedAtStart>>

\* Fetch returns from DownloadAndSave: with an error (no response, a 404 or
\* another status, os.Create, io.Copy or file.Seek failing), with the
\* context's error once it is cancelled, or, the whole body copied, with the
\* links of the buffer.
EndFetch(p) ==
    /\ branches[p].pc \in {"fetching", "copying"}
    /\ \E o \in FetchOutcomes(p) :
          branches' = [branches EXCEPT ![p] =
                          AfterFetch(@, o, PageLinks[site][UrlOf(p)])]
    /\ UNCHANGED <<lbVars, fetchVars, linkVars, site, visitedPages, cache, maxConcurrent, phase, startDepth,
                   cancelled, wg, result, admitCount, visitedAtStart>>

(***************************************************************************)
(* The loop body: semaphore <- 1 blocks while the channel of this Crawl    *)
(* call is full, then wg.Go starts the child with depth-1.                 *)
(***************************************************************************)
SemaphoreHasRoom(p) == branches[p].sem < maxConcurrent

Spawn(p) ==
    /\ branches[p].pc = "loop"
    /\ SemaphoreHasRoom(p)
    /\ \E l \in branches[p].todo :
          /\ branches' =
                (p \o <<l>> :> NewBranch) @@
                [branches EXCEPT
                    ![p].sem = @ + 1,
                    ![p].todo = @ \ {l},
                    ![p].pc = IF branches[p].todo = {l} THEN "ret" ELSE "loop"]
          /\ wg' = wg + 1
    /\ UNCHANGED <<lbVars, fetchVars, linkVars, site, visitedPages, cache, maxConcurrent, phase, startDepth,
                   cancelled, result, admitCount, visitedAtStart>>

\* Line 259, after the child's Crawl has returned: <-semaphore on the
\* parent's channel.  The goroutine Start spawns has no such line.
SlotKept(n) == n
SlotReleased(n) == n - 1

ReleaseSlot(p) ==
    /\ branches[p].pc = "ret"
    /\ Len(p) > 1
    /\ branches' = [branches EXCEPT ![p].pc = "released",
                                    ![Parent(p)].sem = SlotReleased(@)]
    /\ UNCHANGED <<lbVars, fetchVars, linkVars, site, visitedPages, cache, maxConcurrent, phase, startDepth,
                   cancelled, wg, result, admitCount, visitedAtStart>>

\* The end of the goroutine: the function given to wg.Go has returned and
\* the wg.Done that wg.Go defers runs.
Finish(p) ==
    /\ branches[p].pc = IF Len(p) > 1 THEN "released" ELSE "ret"
    /\ branches' = [branches EXCEPT ![p].pc = "done"]
    /\ wg' = wg - 1
    /\ UNCHANGED <<lbVars, fetchVars, linkVars, site, visitedPages, cache, maxConcurrent, phase, startDepth,
                   cancelled, result, admitCount, visitedAtStart>>

(***************************************************************************)
(* Start, from wg.Wait on: once the counter is zero, the keys of           *)
(* visitedPages are copied into the list it returns.                       *)
(***************************************************************************)
WaitNoWait == TRUE
WaitReleased == wg = 0

StartResult == visitedPages

Wait ==
    /\ phase = "running"
    /\ WaitReleased
    /\ phase' = "returned"
    /\ result' = StartResult
    /\ UNCHANGED <<lbVars, fetchVars, linkVars, site, visitedPages, cache, maxConcurrent, startDepth, cancelled,
                   branches, wg, admitCount, visitedAtStart>>

\* One step of the goroutine of branch p.
BranchStep(p) ==
    \/ CrawlEnter(p)
    \/ CheckCtx(p)
    \/ BeginFetch(p)
    \/ Download(p)
    \/ CopyBody(p)
    \/ EndFetch(p)
    \/ Spawn(p)
    \/ ReleaseSlot(p)
    \/ Finish(p)

Next ==
    \/ Start
    \/ Cancel
    \/ \E p \in Paths : CrawlEnter(p)
    \/ \E p \in Paths : CheckCtx(p)
    \/ \E p \in Paths : BeginFetch(p)
    \/ \E p \in Paths : Download(p)
    \/ \E p \in Paths : CopyBody(p)
    \/ \E p \in Paths : EndFetch(p)
    \/ \E p \in Paths : Spawn(p)
    \/ \E p \in Paths : ReleaseSlot(p)
    \/ \E p \in Paths : Finish(p)
    \/ Wait

Spec == Init /\ [][Next]_vars

(***************************************************************************)
(* One Start on a new Crawler, as cmd/crawler runs it, the start URL in    *)
(* any spelling: Crawl passes rawURL to shouldVisit and to Fetch as given. *)
(***************************************************************************)
FirstStart ==
    /\ phase = "idle"
    /\ \E u \in URLs, d \in (-1)..MaxSpelledDepth, c \in BOOLEAN : StartWith(u, d, c)

OneRunNext ==
    \/ FirstStart
    \/ Cancel
    \/ \E p \in Paths : CrawlEnter(p)
    \/ \E p \in Paths : CheckCtx(p)
    \/ \E p \in Paths : BeginFetch(p)
    \/ \E p \in Paths : Download(p)
    \/ \E p \in Paths : CopyBody(p)
    \/ \E p \in Paths : EndFetch(p)
    \/ \E p \in Paths : Spawn(p)
    \/ \E p \in Paths : ReleaseSlot(p)
    \/ \E p \in Paths : Finish(p)
    \/ Wait

OneRunInit == Init /\ site = "loop"

OneRunSpec == OneRunInit /\ [][OneRunNext]_vars

(***************************************************************************)
(* The older Crawler of webcrawler/crawler/crawler.go: no context, no      *)
(* semaphore, and a Crawl that tests visitedPages under c.mu.RLock and     *)
(* inserts under a later c.mu.Lock.  Fetch, wg.Go and Start's wg.Wait are  *)
(* as above.                                                               *)
(***************************************************************************)
OldStart == \E u \in StartURLs, d \in Depths : StartWith(u, d, FALSE)

\* Lines 189-195: the read of visitedPages, then the test with the depth.
OldCheck(p) ==
    /\ branches[p].pc = "start"
    /\ branches' =
          IF UrlOf(p) \in visitedPages
          THEN [branches EXCEPT ![p].pc = "ret", ![p].admit = "false"]
          ELSE IF DepthOf(p) <= 0
               THEN [branches EXCEPT ![p].pc = "ret"]
               ELSE [branches EXCEPT ![p].pc = "marking"]
    /\ UNCHANGED <<lbVars, fetchVars, linkVars, site, visitedPages, cache, maxConcurrent, phase, startDepth,
                   cancelled, wg, result, admitCount, visitedAtStart>>

\* Lines 197-199: the insertion.
OldMark(p) ==
    /\ branches[p].pc = "marking"
    /\ visitedPages' = visitedPages \cup {UrlOf(p)}
    /\ admitCount' = [admitCount EXCEPT ![UrlOf(p)] = @ + 1]
    /\ branches' = [branches EXCEPT ![p].pc = "fetch", ![p].admit = "true"]
    /\ UNCHANGED <<lbVars, fetchVars, linkVars, site, cache, maxConcurrent, phase, startDepth, cancelled, wg,
                   result, visitedAtStart>>

\* Lines 209-213: wg.Go for each link, nothing to wait for.
OldSpawn(p) ==
    /\ branches[p].pc = "loop"
    /\ \E l \in branches[p].todo :
          /\ branches' =
                (p \o <<l>> :> NewBranch) @@
                [branches EXCEPT
                    ![p].todo = @ \ {l},
                    ![p].pc = IF branches[p].todo = {l} THEN "ret" ELSE "loop"]
          /\ wg' = wg + 1
    /\ UNCHANGED <<lbVars, fetchVars, linkVars, site, visitedPages, cache, maxConcurrent, phase, startDepth,
                   cancelled, result, admitCount, visitedAtStart>>

\* The end of the goroutine: the wg.Done that wg.Go defers.
OldFinish(p) ==
    /\ branches[p].pc = "ret"
    /\ branches' = [branches EXCEPT ![p].pc = "done"]
    /\ wg' = wg - 1
    /\ UNCHANGED <<lbVars, fetchVars, linkVars, site, visitedPages, cache, maxConcurrent, phase, startDepth,
                   cancelled, result, admitCount, visitedAtStart>>

OldNext ==
    \/ OldStart
    \/ \E p \in Paths : OldCheck(p)
    \/ \E p \in Paths : OldMark(p)
    \/ \E p \in Paths : BeginFetch(p)
    \/ \E p \in Paths : Download(p)
    \/ \E p \in Paths : CopyBody(p)
    \/ \E p \in Paths : EndFetch(p)
    \/ \E p \in Paths : OldSpawn(p)
    \/ \E p \in Paths : OldFinish(p)
    \/ Wait

OldSpec == Init /\ [][OldNext]_vars

(***************************************************************************)
(* The Go scheduler runs every goroutine that can take a step, and every   *)
(* fetch is taken to return: some enabled step of some goroutine, or of    *)
(* Start's wg.Wait, is eventually taken.  Nothing obliges the caller to    *)
(* cancel or to call Start again.                                          *)
(***************************************************************************)
Progress == (\E p \in Paths : BranchStep(p)) \/ Wait

\* One Start on each Crawler, as cmd/crawler calls it.
StartOnce == phase = "idle" /\ Start

FairNext ==
    \/ StartOnce
    \/ Cancel
    \/ \E p \in Paths : CrawlEnter(p)
    \/ \E p \in Paths : CheckCtx(p)
    \/ \E p \in Paths : BeginFetch(p)
    \/ \E p \in Paths : Download(p)
    \/ \E p \in Paths : CopyBody(p)
    \/ \E p \in Paths : EndFetch(p)
    \/ \E p \in Paths : Spawn(p)
    \/ \E p \in Paths : ReleaseSlot(p)
    \/ \E p \in Paths : Finish(p)
    \/ Wait

FairSpec == Init /\ [][FairNext]_vars /\ WF_vars(Progress)

(***************************************************************************)
(* Fetch on its own, and FindLinks on its own: no crawl runs.              *)
(***************************************************************************)
CrawlIdle ==
    /\ site = "test"
    /\ visitedPages = {}
    /\ cache = [u \in URLs |-> NoFile]
    /\ maxConcurrent = 1
    /\ phase = "idle"
    /\ startDepth = 0
    /\ cancelled = FALSE
    /\ branches = <<>>
    /\ wg = 0
    /\ result = {}
    /\ admitCount = [u \in URLs |-> 0]
    /\ visitedAtStart = {}

FetchNext ==
    \/ \E c \in Fetchers : CallFetch(c) /\ UNCHANGED <<crawlVars, linkVars, lbVars>>
    \/ \E c \in Fetchers :
          CallDownloadAndSave(c) /\ UNCHANGED <<crawlVars, linkVars, lbVars>>
    \/ \E c \in Fetchers : DoReturns(c) /\ UNCHANGED <<crawlVars, linkVars, lbVars>>
    \/ \E c \in Fetchers : CopyChunk(c) /\ UNCHANGED <<crawlVars, linkVars, lbVars>>
    \/ \E c \in Fetchers : CopyReturns(c) /\ UNCHANGED <<crawlVars, linkVars, lbVars>>

FetchOnlyInit == CrawlIdle /\ FetchInit /\ LinkIdle /\ LbIdle

FetchSpec == FetchOnlyInit /\ [][FetchNext]_vars

LinkNext == CallFindLinks /\ UNCHANGED <<crawlVars, fetchVars, lbVars>>

LinkOnlyInit == CrawlIdle /\ FetchIdle /\ LinkInit /\ LbIdle

LinkSpec == LinkOnlyInit /\ [][LinkNext]_vars

(***************************************************************************)
(* The load balancer on its own.                                           *)
(***************************************************************************)
LbOnlyInit == CrawlIdle /\ FetchIdle /\ LinkIdle /\ LbInit

LbNext ==
    \/ \E c \in Callers :
          NextBackendAdd(c) /\ UNCHANGED <<crawlVars, fetchVars, linkVars>>
    \/ \E c \in Callers :
          NextBackendScan(c) /\ UNCHANGED <<crawlVars, fetchVars, linkVars>>
    \/ HealthCheck /\ UNCHANGED <<crawlVars, fetchVars, linkVars>>
    \/ isBackendAlive /\ UNCHANGED <<crawlVars, fetchVars, linkVars>>
    \/ HealthCheckReturns /\ UNCHANGED <<crawlVars, fetchVars, linkVars>>
    \/ \E idx \in 0..(NumBackends - 1), value \in BOOLEAN :
          SetAlive(idx, value) /\ UNCHANGED <<crawlVars, fetchVars, linkVars>>

LbSpec == LbOnlyInit /\ [][LbNext]_vars

(***************************************************************************)
(* The handlers on their own: NextBackend called by concurrent handlers,   *)
(* and SetAlive; no HealthCheck pass runs.                                 *)
(***************************************************************************)
ServeNext ==
    \/ \E c \in Callers :
          NextBackendAdd(c) /\ UNCHANGED <<crawlVars, fetchVars, linkVars>>
    \/ \E c \in Callers :
          NextBackendScan(c) /\ UNCHANGED <<crawlVars, fetchVars, linkVars>>
    \/ \E idx \in 0..(NumBackends - 1), value \in BOOLEAN :
          SetAlive(idx, value) /\ UNCHANGED <<crawlVars, fetchVars, linkVars>>

ServeSpec == LbOnlyInit /\ [][ServeNext]_vars

(***************************************************************************)
(* What the claims are stated over.                                        *)
(***************************************************************************)
\* The branches of the running (or last) Start that called Fetch.
Fetched ==
    {p \in Paths : branches[p].pc \in {"fetching", "copying"}
                       \/ branches[p].outcome # "none"}
Fetching == {p \in Paths : branches[p].pc \in {"fetching", "copying"}}
\* The URLs shouldVisit admitted during the running (or last) Start.
AdmittedThisRun == {UrlOf(p) : p \in {q \in Paths : branches[q].admit = "true"}}
Ended(p) == branches[p].pc \in {"ret", "released", "done"}
Failed(p) == branches[p].outcome \in {"fail", "canceled"}

\* C1: of all the admissions of one URL exactly one returned true, the one
\* that inserted it; every other one returned false.
AdmissionExactlyOnce ==
    /\ \A u \in URLs :
          /\ admitCount[u] <= 1
          /\ (admitCount[u] = 1) <=> (u \in visitedPages)
          /\ Cardinality({p \in Paths : UrlOf(p) = u /\ branches[p].admit = "true"}) <= 1
    /\ \A p \in Paths :
          branches[p].admit # "none" => admitCount[UrlOf(p)] = 1

\* Two branches of one run asked for the same URL: one won, one lost.
AdmissionRaceSeen ==
    \E p, q \in Paths :
        /\ UrlOf(p) = UrlOf(q)
        /\ branches[p].admit = "true"
        /\ branches[q].admit = "false"

\* C2: within one Start run Fetch is called at most once for any URL: no two
\* branches both fetch it, and a failed fetch is not tried again.
FetchAtMostOnce ==
    \A u \in URLs : Cardinality({p \in Fetched : UrlOf(p) = u}) <= 1

\* C3: every call to Start eventually returns.
StartReturns == (phase = "running") ~> (phase = "returned")

\* A Start over the cyclic site, deep enough to walk round the cycle, returned.
CyclicCrawlReturned ==
    /\ phase = "returned"
    /\ site = "loop"
    /\ startDepth >= 3
    /\ \E p \in Paths : Len(p) = 3 /\ UrlOf(p) = "http://h" /\ branches[p].admit = "false"
    /\ \E p \in Paths : branches[p].outcome = "ok" /\ Cardinality(Children(p)) > maxConcurrent

\* C4: when Start reads visitedPages every branch it spawned, directly or
\* transitively, has ended: none is running, fetching or about to admit.
JoinBeforeResult ==
    phase = "returned" =>
        /\ wg = 0
        /\ \A p \in Paths : branches[p].pc = "done"
        /\ result = visitedPages

\* Start returned after a crawl that spawned grandchildren.
JoinedGrandchildren ==
    /\ phase = "returned"
    /\ \E p \in Paths : Len(p) >= 3


\* C5: the list Start returns is exactly the set of URLs admitted during
\* that run; for the test page (a root with three children whose fetches
\* all fail) and a depth of at least 2 it has exactly 4 URLs.
ResultIsThisRunsAdmissions ==
    phase = "returned" =>
        /\ result = AdmittedThisRun
        /\ (/\ site = "test"
            /\ <<"http://h">> \in Paths
            /\ startDepth >= 2
            /\ branches[<<"http://h">>].outcome = "ok" \/ branches[<<"http://h">>].admit # "true"
            /\ \A p \in Children(<<"http://h">>) : branches[p].outcome # "ok")
           => Cardinality(result) = 4

\* C6: a Start with depth <= 0 admits no URL, fetches nothing, spawns no
\* branch, returns an empty list and leaves the visited set as it was.
DepthZeroVisitsNothing ==
    (phase = "returned" /\ startDepth <= 0) =>
        /\ AdmittedThisRun = {}
        /\ Fetched = {}
        /\ \A p \in Paths : Len(p) = 1
        /\ visitedPages = visitedAtStart
        /\ result = {}

\* C7: at every moment the number of branches fetching at the same time is
\* at most maxConcurrent.
FetchesWithinMaxConcurrent == Cardinality(Fetching) <= maxConcurrent

\* C8 as claimed: once the signal is set no branch begins a Fetch.
NoFetchBeginsAfterCancel == [][cancelled => Fetched' \subseteq Fetched]_vars

\* C8 as amended: a branch begins a Fetch only if the signal was not set when
\* that branch evaluated ctx.Err(); a branch that found it set has ended
\* with no fetch and no child.
FetchOnlyPastCleanCheck ==
    \A p \in Paths :
        /\ (branches[p].pc \in {"fetch", "fetching", "copying"} \/ p \in Fetched)
              => ~branches[p].ctxAtCheck
        /\ branches[p].ctxAtCheck
              => Ended(p) /\ p \notin Fetched /\ Children(p) = {}

\* In a cancelled run one branch was stopped by its check, another had passed it.
CancelStoppedOneBranch ==
    /\ cancelled
    /\ \E p, q \in Paths :
          /\ branches[p].ctxAtCheck
          /\ q \in Fetched
          /\ Len(q) = Len(p)

\* C9: a branch that reaches admission with the signal set adds no URL to
\* the visited set.
NoAdmissionAfterCancel == [][cancelled => visitedPages' = visitedPages]_vars

\* C10: a branch whose fetch failed ends with no children; every branch
\* whose fetch succeeded has a child for every link Fetch returned, whatever
\* happened to the other branches; the run can always go on, and when Start
\* returns every branch has ended.
FetchFailureContained ==
    /\ \A p \in Paths : Failed(p) => Ended(p) /\ Children(p) = {}
    /\ \A p \in Paths :
          (branches[p].outcome = "ok" /\ Ended(p)) =>
              {UrlOf(q) : q \in Children(p)} = branches[p].links
    /\ phase = "running" => ENABLED Progress
    /\ phase = "returned" => \A p \in Paths : branches[p].pc = "done"

\* Start returned from a run in which one child's fetch failed and a sibling
\* of it was fetched and spawned its own children.
FailedBesideFetchedSibling ==
    /\ phase = "returned"
    /\ \E p, q \in Paths :
          /\ Len(p) = 2 /\ Len(q) = 2
          /\ branches[p].outcome = "fail"
          /\ branches[q].outcome = "ok"
          /\ Children(q) # {}

\* A call returns in this step: from httpClient.Do or os.Create, or from
\* the copy.
Returns(c) == fetchCalls[c].pc \in {"do", "copy"} /\ fetchCalls'[c].pc = "idle"

\* C11: a Fetch called while the cache file of its URL exists sends no HTTP
\* request and returns the links of the file's content; so a request is sent
\* only for a URL whose cache file was absent, in a resumed run as in a
\* first one.
CacheHitSendsNoRequest ==
    [][/\ \A c \in Fetchers :
             (fetchCalls[c].pc = "idle" /\ fetchCalls'[c].op = "Fetch") =>
                 ~disk[fetchCalls'[c].filename].exists
       /\ (fetchCount' # fetchCount /\ fetchCalls' = fetchCalls) =>
             /\ lastFetch'.op = "Fetch"
             /\ ~lastFetch'.requested
             /\ lastFetch'.err \in {NoErr, Errorf("read file", 0)}
             /\ lastFetch'.err = NoErr =>
                   /\ lastFetch'.existed
                   /\ lastFetch'.links =
                         FindLinks(Parse(lastFetch'.url),
                                   Anchors(disk[lastFetch'.filename].bytes))
       /\ lastFetch'.requested => ~lastFetch'.existed]_vars

\* A resumed run: one page was downloaded by this process, the last Fetch
\* read a file an earlier process had left and found links in it.
ResumedFetchHit ==
    /\ lastFetch.existed
    /\ lastFetch.links # {}
    /\ ~downloaded[lastFetch.url].done
    /\ \E u \in FetchURLs : downloaded[u].done

\* C12: a download answered with a status other than 200 returns an error
\* and a nil buffer and creates or modifies no file; the error is
\* ErrPageNotFound for a 404 and the generic error with the status code for
\* any other.
NonOKLeavesNoFile ==
    [][\A c \in Fetchers :
          /\ fetchCalls'[c].pc = "copy" => fetchCalls'[c].status = StatusOK
          /\ (Returns(c) /\ lastFetch'.status \in Statuses \ {StatusOK}) =>
                /\ fetchCalls[c].pc = "do"
                /\ disk' = disk
                /\ lastFetch'.buffer = NilBuffer
                /\ lastFetch'.links = {}
                /\ lastFetch'.status = StatusNotFound =>
                      lastFetch'.err = ErrPageNotFound
                /\ lastFetch'.status # StatusNotFound =>
                      lastFetch'.err =
                          Errorf("request failed with status", lastFetch'.status)]_vars

\* A 404 for one URL after another URL was downloaded and saved.
NotFoundBesideSavedPage ==
    /\ lastFetch.requested
    /\ lastFetch.status = StatusNotFound
    /\ \E u \in FetchURLs :
          /\ downloaded[u].done
          /\ disk[Filename(u)].bytes # <<>>

\* C13: when a download returns with success the file holds exactly the
\* bytes of the buffer that is returned, and a later Fetch that reads the
\* file returns the links the download returned.
FileEqualsBuffer ==
    [][/\ \A c \in Fetchers :
             (Returns(c) /\ lastFetch'.err = NoErr) =>
                 /\ ~lastFetch'.buffer.nil
                 /\ disk'[lastFetch'.filename] =
                       [exists |-> TRUE, bytes |-> lastFetch'.buffer.bytes]
       /\ (/\ fetchCount' # fetchCount /\ fetchCalls' = fetchCalls
           /\ lastFetch'.err = NoErr
           /\ downloaded[lastFetch'.url].done) =>
             lastFetch'.links = downloaded[lastFetch'.url].links]_vars

\* C14: the visited set is empty whenever Start begins, so Start returns
\* exactly the URLs admitted during that call and the start URL of every
\* call with a positive depth is admitted.
VisitedSetScopedToStart ==
    /\ visitedAtStart = {}
    /\ phase = "returned" => result = AdmittedThisRun
    /\ \A p \in Paths :
          (Len(p) = 1 /\ branches[p].admit # "none") => branches[p].admit = "true"

\* C15: the visited set never holds two entries with the same normalized
\* form, whatever the spelling of the start URL.
OneEntryPerNormalizedForm ==
    \A u, v \in visitedPages :
        Normalized(Chars[u]) = Normalized(Chars[v]) => u = v

\* C16: the links FindLinks returns never include the normalized URL of the
\* page itself, for every base URL and document.
OwnUrlNeverReturned ==
    returnedLinks.returned => Normalized(givenUri) \notin returnedLinks.links

\* An href that is always passed over: empty, mailto: or a bare fragment.
NeverALink(href) ==
    \/ TrimSpace(href) = <<>>
    \/ HasPrefix(TrimSpace(href), "mailto:")
    \/ HasPrefix(TrimSpace(href), "#")

\* C17: every link FindLinks returns is on the host of the base URL, empty,
\* mailto: and fragment hrefs add nothing to the result, and the page of the
\* test yields exactly its 3 same-host links.
LinksStayOnHost ==
    returnedLinks.returned =>
        /\ \A l \in returnedLinks.links : Parse(l).Host = Parse(givenUri).Host
        /\ returnedLinks.links =
              FindLinks(Parse(givenUri),
                        SelectSeq(givenDocument, LAMBDA h : ~NeverALink(h)))
        /\ (givenUri = <<"http:", "//", "h">> /\ givenDocument = TestPage) =>
              Cardinality(returnedLinks.links) = 3

\* The path of a URL lies properly below another path.
IsChildPath(parent, child) ==
    LET dir == TrimRight(parent, Slashes) IN
    /\ Len(child) > Len(dir) + 1
    /\ SubSeq(child, 1, Len(dir)) = dir
    /\ child[Len(dir) + 1] = "/"

\* C18: every URL admitted in a run, the start URL apart, lies below the
\* path of the start URL.
OnlyChildrenOfStartAdmitted ==
    \A p \in Paths :
        (Len(p) > 1 /\ branches[p].admit = "true") =>
            IsChildPath(Parse(Chars[p[1]]).Path, Parse(Chars[UrlOf(p)]).Path)

\* C19: every cache file that exists holds the complete body the site serves
\* for its URL.
CacheFilesComplete ==
    \A u \in FetchURLs :
        (/\ disk[Filename(u)].exists
         /\ \A c \in Fetchers : fetchCalls[c].pc = "copy" =>
                                    fetchCalls[c].filename # Filename(u)) =>
            disk[Filename(u)].bytes = server[u]

HoldingSlot(p) ==
    {q \in Children(p) : branches[q].pc \notin {"released", "done"}}

ChildOnlyOfFetchedParent ==
    \A p \in Paths :
        Len(p) > 1 =>
            /\ Parent(p) \in Paths
            /\ Parent(p) \in Fetched
            /\ branches[Parent(p)].outcome = "ok"
            /\ UrlOf(p) \in branches[Parent(p)].links

\* A grandchild was admitted and fetched below two fetched pages, while a
\* sibling of its parent failed and has no branch below it.
GrandchildFetchedBesideFailure ==
    \E p, q \in Paths :
        /\ Len(p) = 3 /\ p \in Fetched
        /\ Len(q) = 2 /\ Failed(q)

\* The start URL of the running (or last) Start.
StartURL == UrlOf(CHOOSE p \in Paths : Len(p) = 1)

\* The URLs within n links of u on the site.
RECURSIVE Reach(_, _)
Reach(u, n) ==
    IF n <= 0 THEN {u}
    ELSE {u} \cup UNION {Reach(v, n - 1) : v \in PageLinks[site][u]}

\* The URLs a Start of the given depth can reach: those within depth-1
\* links of the start URL, none for a depth of 0 or less.
WithinDepth == IF startDepth <= 0 THEN {} ELSE Reach(StartURL, startDepth - 1)

\* C22: a Start that was not cancelled and whose fetches all succeeded
\* returns every URL within depth-1 links of the start URL.
AllWithinDepthReturned ==
    (/\ phase = "returned"
     /\ ~cancelled
     /\ \A p \in Paths : ~Failed(p))
        => WithinDepth \subseteq result

\* C23: no branch with a remaining depth of 0 or less admits or fetches, every
\* child has one less than its parent, the list Start returns lies within
\* depth-1 links of the start URL, and no more URLs are admitted than lie
\* within that distance.
DepthBoundsTheRun ==
    /\ \A p \in Paths :
          /\ Len(p) > 1 => DepthOf(p) = DepthOf(Parent(p)) - 1
          /\ DepthOf(p) <= 0 => branches[p].admit = "none" /\ p \notin Fetched
    /\ phase = "returned" => result \subseteq WithinDepth
    /\ phase # "idle" => Cardinality(AdmittedThisRun) <= Cardinality(WithinDepth)

\* C24: after a HealthCheck pass the Alive flag of every backend is the
\* status its probe gave in that pass, and a NextBackend that began after
\* the pass returns no backend whose probe failed.
HealthCheckSetsAlive ==
    probed.done =>
        /\ \A b \in 1..Len(alive) : alive[b] = probed.status[b]
        /\ \A c \in Callers :
              (calls[c].afterPass /\ calls[c].outcome = "backend") =>
                  probed.status[calls[c].idx + 1]

\* The backends NextBackend can choose from.
AliveBackends == {idx \in 0..(Len(alive) - 1) : IsAlive(idx)}

\* C25: a NextBackend call during which no Alive flag was written returns
\* no backend whose Alive flag is false and returns nil exactly when no
\* backend is alive; and while all backends are alive as they were built,
\* any n calls that follow one another in the order of their additions,
\* overlapping or not, return every one of the n backends once.
RoundRobinOverAlive ==
    /\ \A c \in Callers :
          (calls[c].pc = "returned" /\ calls[c].writes = setAliveCalls) =>
              /\ calls[c].outcome = "backend" => calls[c].idx \in AliveBackends
              /\ (calls[c].outcome = "nil") <=> (AliveBackends = {})
    /\ setAliveCalls = 0 =>
          \A k \in 1..(Len(log) - Len(alive) + 1) :
              LET window == k..(k + Len(alive) - 1) IN
              (\A j \in window : log[j].outcome # "none") =>
                  /\ \A j \in window : log[j].outcome = "backend"
                  /\ {log[j].idx : j \in window} = 0..(Len(alive) - 1)

\* Three calls have returned the three backends; then every flag was set to
\* false and a fourth call, during which no flag was written, returned nil.
NilAfterFullRound ==
    /\ Len(log) = 4
    /\ {log[j].idx : j \in 1..3} = 0..(Len(alive) - 1)
    /\ \A j \in 1..3 : log[j].outcome = "backend"
    /\ log[4].outcome = "nil"
    /\ AliveBackends = {}
    /\ \E c \in Callers : calls[c].slot = 4 /\ calls[c].writes = setAliveCalls

====
